---- MODULE Spec2Model ----
(***************************************************************************)
(* Model of sdxl_train_network.py (SdxlNetworkTrainer): the argument       *)
(* checks, the textual-inversion loader, the text-encoder output cache     *)
(* priming, the conditioning assembler and the denoiser call.              *)
(*                                                                         *)
(* Five specifications share the variables:                               *)
(*   Spec      the run: assert_extra_args, cache_text_encoder_outputs_if_  *)
(*             needed (step by step), then get_text_cond per batch;        *)
(*   SpecTI    load_textual_inversion on tokenizers that assign ids the    *)
(*             way transformers' add_tokens does;                          *)
(*   SpecTok   load_textual_inversion on a tokenizer whose                 *)
(*             convert_tokens_to_ids may resolve any id list;              *)
(*   SpecCond  get_text_cond on every batch shape;                         *)
(*   SpecUnet  call_unet on bounded tensors.                               *)
(***************************************************************************)
EXTENDS Integers, Sequences, FiniteSets, TLC

VARIABLES
    pc,          \* position of the run / of the handler under way
    error,       \* "none", or the failure that ended the run
    args,        \* the parsed command line options
    cacheable,   \* what train_dataset_group.is_text_encoder_output_cacheable() returns
    accel,       \* accelerator.device
    te,          \* text_encoders[0], [1]: where each is and its dtype
    big,         \* vae.device and unet.device
    pre,         \* history: te and big when cache_text_encoder_outputs_if_needed was entered
    org,         \* the locals org_vae_device / org_unet_device (<<>> while unbound)
    te_invoked,  \* history: some text-encoder invocation has happened
    prime_call,  \* history: the dataset.cache_text_encoder_outputs call (<<>> if none)
    batch,       \* the batch handed to get_text_cond (<<>> before the first)
    live_call,   \* the get_hidden_states_sdxl call of the last get_text_cond (<<>> if none)
    text_conds,  \* what the last get_text_cond returned (<<>> if nothing)
    tok,         \* tokenizers[0], [1]: the token strings, the one at position i has id i-1
    emb,         \* the input-embedding tables of text_encoders[0], [1]
    ti,          \* load_textual_inversion's locals and call history
    unet_io      \* call_unet's inputs, the denoiser calls it made and its result

vars == << pc, error, args, cacheable, accel, te, big, pre, org, te_invoked,
           prime_call, batch, live_call, text_conds, tok, emb, ti, unet_io >>

runVars == << args, cacheable, accel, te, big, pre, org, te_invoked, prime_call,
              batch, live_call, text_conds >>

-----------------------------------------------------------------------------
(* Values *)

Devices == {"cpu", "cuda"}

DTypes == {"float32", "float16", "bfloat16"}

\* args.max_token_length: None (<<>>) or a length
MaxTokenLengths == {<<>>, <<225>>}

\* Casting a value to a dtype keeps what the dtype can represent: float32 keeps
\* the value, float16 drops the lowest bit, bfloat16 the two lowest.
Round(v, dt) ==
    CASE dt = "float32" -> v
      [] dt = "float16" -> v - (v % 2)
      [] dt = "bfloat16" -> v - (v % 4)

\* tensor.to(device)
ToDevice(t, d) == [t EXCEPT !.device = d]

\* tensor.to(dtype)
ToDType(t, dt) == [t EXCEPT !.dtype = dt, !.v = Round(t.v, dt)]

Tensor(v, d, dt) == [st |-> "tensor", v |-> Round(v, dt), device |-> d, dtype |-> dt]

\* a batch entry that is None, and a key that is not in the batch
NoneEntry == [st |-> "none", v |-> 0, device |-> "cpu", dtype |-> "float32"]

MissingEntry == [st |-> "missing", v |-> 0, device |-> "cpu", dtype |-> "float32"]

-----------------------------------------------------------------------------
(* assert_extra_args *)

\* what the collaborators called by assert_extra_args can do
ExtOutcomes == {"ok", "super_fails", "verify_sdxl_fails", "bucket_fails"}

\* lines 26-29 without the assertion
CacheableCheckNoDataset(a, c) == TRUE

\* lines 26-29: the dataset must be cacheable when caching is asked for
CacheableCheck(a, c) == a.cache_text_encoder_outputs => c

\* lines 31-33 with the "not" lost
TrainUnetOnlyCheckNoNot(a) ==
    a.network_train_unet_only \/ a.cache_text_encoder_outputs

\* lines 31-33: no caching while the text encoders' network is trained
TrainUnetOnlyCheck(a) ==
    a.network_train_unet_only \/ ~a.cache_text_encoder_outputs

\* the error assert_extra_args ends with, in the order of its statements
AssertOutcome(a, c, ext) ==
    IF ext = "super_fails" THEN "super_assert_extra_args"
    ELSE IF ext = "verify_sdxl_fails" THEN "verify_sdxl_training_args"
    ELSE IF ~CacheableCheck(a, c) THEN "not_cacheable"
    ELSE IF ~TrainUnetOnlyCheck(a) THEN "te_train_with_cache"
    ELSE IF ext = "bucket_fails" THEN "verify_bucket_reso_steps"
    ELSE "none"

AssertExtraArgs ==
    /\ pc = "start"
    /\ \E ext \in ExtOutcomes :
         LET e == AssertOutcome(args, cacheable, ext) IN
           /\ error' = e
           /\ pc' = IF e = "none" THEN "asserted" ELSE "failed"
    /\ UNCHANGED << runVars, tok, emb, ti, unet_io >>

-----------------------------------------------------------------------------
(* cache_text_encoder_outputs_if_needed *)

\* lines 118-126: vae and unet to the cpu unless lowram; their devices kept
Relocate ==
    /\ pc = "asserted"
    /\ args.cache_text_encoder_outputs
    /\ pre' = [te |-> te, big |-> big]
    /\ IF ~args.lowram
         THEN /\ org' = <<[vae |-> big.vae, unet |-> big.unet]>>
              /\ big' = [vae |-> "cpu", unet |-> "cpu"]
         ELSE UNCHANGED << org, big >>
    /\ pc' = "relocated"
    /\ UNCHANGED << error, args, cacheable, accel, te, te_invoked, prime_call,
                    batch, live_call, text_conds, tok, emb, ti, unet_io >>

\* what dataset.cache_text_encoder_outputs may leave an encoder as: where it
\* was, or on the device and in the dtype it was given
EncoderAfterCaching(t, d, dt) ==
    { [device |-> dv, dtype |-> ty] : dv \in {t.device, d}, ty \in {t.dtype, dt} }

\* lines 129-137: the dataset runs every sample through both text encoders
Encode ==
    /\ pc = "relocated"
    /\ te_invoked' = TRUE
    /\ prime_call' = <<[vae |-> big.vae, unet |-> big.unet,
                        device |-> accel, weight_dtype |-> args.weight_dtype,
                        to_disk |-> args.cache_text_encoder_outputs_to_disk]>>
    /\ \/ /\ \E t1 \in EncoderAfterCaching(te[1], accel, args.weight_dtype),
                t2 \in EncoderAfterCaching(te[2], accel, args.weight_dtype) :
               te' = [i \in {1, 2} |-> IF i = 1 THEN t1 ELSE t2]
          /\ pc' = "encoded"
          /\ UNCHANGED error
       \/ /\ pc' = "failed"
          /\ error' = "compute_failure"
          /\ UNCHANGED te
    /\ UNCHANGED << args, cacheable, accel, big, pre, org, batch, live_call,
                    text_conds, tok, emb, ti, unet_io >>

\* lines 139-140 without the dtype
DemoteEncoderKeepDType(t) == [device |-> "cpu", dtype |-> t.dtype]

\* text_encoder.to("cpu", dtype=torch.float32)
DemoteEncoder(t) == [device |-> "cpu", dtype |-> "float32"]

\* lines 139-142
Demote ==
    /\ pc = "encoded"
    /\ te' = [i \in {1, 2} |-> DemoteEncoder(te[i])]
    /\ pc' = "demoted"
    /\ UNCHANGED << error, args, cacheable, accel, big, pre, org, te_invoked,
                    prime_call, batch, live_call, text_conds, tok, emb, ti, unet_io >>

\* lines 146-147 left out
RestoreBigLeaveOnCpu(b, o) == b

\* vae.to(org_vae_device); unet.to(org_unet_device)
RestoreBig(b, o) == [vae |-> o.vae, unet |-> o.unet]

\* lines 144-147
Restore ==
    /\ pc = "demoted"
    /\ IF ~args.lowram
         THEN big' = RestoreBig(big, org[1])
         ELSE UNCHANGED big
    /\ pc' = "primed"
    /\ UNCHANGED << error, args, cacheable, accel, te, pre, org, te_invoked,
                    prime_call, batch, live_call, text_conds, tok, emb, ti, unet_io >>

\* text_encoder.to(accelerator.device)
ResidentEncoder(t, d) == [t EXCEPT !.device = d]

\* lines 148-151: without caching both text encoders go to the accelerator
KeepResident ==
    /\ pc = "asserted"
    /\ ~args.cache_text_encoder_outputs
    /\ pre' = [te |-> te, big |-> big]
    /\ te' = [i \in {1, 2} |-> ResidentEncoder(te[i], accel)]
    /\ pc' = "primed"
    /\ UNCHANGED << error, args, cacheable, accel, big, org, te_invoked,
                    prime_call, batch, live_call, text_conds, tok, emb, ti, unet_io >>

-----------------------------------------------------------------------------
(* get_text_cond *)

IsAbsent(entry) == entry.st \in {"missing", "none"}

\* line 154 with a test of the key alone, a None entry taken as present
TakesLivePathKeyOnly(b) == b.text_encoder_outputs1_list.st = "missing"

\* line 154: "text_encoder_outputs1_list" not in batch, or it is None
TakesLivePath(b) == IsAbsent(b.text_encoder_outputs1_list)

\* lines 183-185: entry.to(accelerator.device).to(weight_dtype)
CachedCond(t, d, dt) == ToDType(ToDevice(t, d), dt)

\* lines 170-181: the arguments of train_util.get_hidden_states_sdxl, the two
\* text encoders as they are at the call
LiveCall(a, d, b, encs) ==
    [max_token_length |-> a.max_token_length,
     input_ids1 |-> ToDevice(b.input_ids, d),
     input_ids2 |-> ToDevice(b.input_ids2, d),
     te1 |-> encs[1], te2 |-> encs[2],
     weight_dtype |-> IF ~a.full_fp16 THEN "None" ELSE a.weight_dtype]

\* an encoder and its input ids on different devices: torch raises
DeviceMismatch(c) ==
    \/ c.te1.device # c.input_ids1.device
    \/ c.te2.device # c.input_ids2.device

\* what get_hidden_states_sdxl returns for a call: two hidden states and the
\* pooled output, in the dtype asked for
LiveOutputs(c) ==
    LET dt == IF c.weight_dtype = "None" THEN "float32" ELSE c.weight_dtype IN
      << Tensor(c.input_ids1.v + 1, c.input_ids1.device, dt),
         Tensor(c.input_ids2.v + 2, c.input_ids2.device, dt),
         Tensor(c.input_ids2.v + 3, c.input_ids2.device, dt) >>

\* the cached path reads all three entries as tensors
CachedReadable(b) ==
    /\ b.text_encoder_outputs1_list.st = "tensor"
    /\ b.text_encoder_outputs2_list.st = "tensor"
    /\ b.text_encoder_pool2_list.st = "tensor"

\* get_text_cond on batch b of the batches B the data loader can deliver
GetTextCond(B) ==
    /\ pc \in {"primed", "cond"}
    /\ \E b \in B :
         /\ batch' = <<b>>
         /\ IF TakesLivePath(b)
              THEN LET c == LiveCall(args, accel, b, te) IN
                     /\ live_call' = <<c>>
                     /\ te_invoked' = TRUE
                     /\ IF DeviceMismatch(c)
                          THEN /\ pc' = "failed"
                               /\ error' = "device_mismatch"
                               /\ text_conds' = <<>>
                          ELSE /\ pc' = "cond"
                               /\ error' = "none"
                               /\ text_conds' = LiveOutputs(c)
              ELSE /\ live_call' = <<>>
                   /\ UNCHANGED te_invoked
                   /\ IF CachedReadable(b)
                        THEN /\ pc' = "cond"
                             /\ error' = "none"
                             /\ text_conds' =
                                  << CachedCond(b.text_encoder_outputs1_list, accel, args.weight_dtype),
                                     CachedCond(b.text_encoder_outputs2_list, accel, args.weight_dtype),
                                     CachedCond(b.text_encoder_pool2_list, accel, args.weight_dtype) >>
                        ELSE /\ pc' = "failed"
                             /\ error' = "cached_entry_unreadable"
                             /\ text_conds' = <<>>
    /\ UNCHANGED << args, cacheable, accel, te, big, pre, org, prime_call,
                    tok, emb, ti, unet_io >>

\* the cached entries a batch can hold
CachedEntries(v, devs, dts) ==
    {NoneEntry, MissingEntry} \cup { Tensor(v, d, dt) : d \in devs, dt \in dts }

\* every batch: each precomputed entry missing, None or a tensor, by itself
AllBatches ==
    [ text_encoder_outputs1_list : CachedEntries(5, Devices, DTypes),
      text_encoder_outputs2_list : CachedEntries(6, Devices, DTypes),
      text_encoder_pool2_list : CachedEntries(7, Devices, DTypes),
      input_ids : { Tensor(10, d, "float32") : d \in Devices },
      input_ids2 : { Tensor(20, d, "float32") : d \in Devices } ]

\* the batch invariant: the precomputed entries are all there or all absent
BatchInvariant(b) ==
    \/ CachedReadable(b)
    \/ /\ IsAbsent(b.text_encoder_outputs1_list)
       /\ IsAbsent(b.text_encoder_outputs2_list)
       /\ IsAbsent(b.text_encoder_pool2_list)

\* the batches of the run: the precomputed entries all missing, all None or all
\* tensors of one dtype, everything on the cpu as the loader collates it
RunBatches ==
    { [ text_encoder_outputs1_list |-> e1,
        text_encoder_outputs2_list |-> [e1 EXCEPT !.v = Round(6, e1.dtype)],
        text_encoder_pool2_list |-> [e1 EXCEPT !.v = Round(7, e1.dtype)],
        input_ids |-> Tensor(10, "cpu", "float32"),
        input_ids2 |-> Tensor(20, "cpu", "float32") ] :
      e1 \in { [e EXCEPT !.v = IF e.st = "tensor" THEN e.v ELSE 0] :
                 e \in CachedEntries(5, {"cpu"}, {"float32", "float16"}) } }

-----------------------------------------------------------------------------
(* The run *)

ArgsSet ==
    [ cache_text_encoder_outputs : BOOLEAN,
      cache_text_encoder_outputs_to_disk : BOOLEAN,
      network_train_unet_only : BOOLEAN,
      lowram : BOOLEAN,
      full_fp16 : BOOLEAN,
      weight_dtype : DTypes,
      max_token_length : MaxTokenLengths ]

\* the parts of the state the run does not touch
IdleTI ==
    /\ tok = <<>>
    /\ emb = <<>>
    /\ ti = <<>>

IdleUnet == unet_io = <<>>

\* after construction and load_target_model: options parsed, models loaded
Init ==
    /\ pc = "start"
    /\ error = "none"
    /\ args \in ArgsSet
    /\ cacheable \in BOOLEAN
    /\ accel \in Devices
    /\ \E d1 \in Devices, d2 \in Devices, dt \in {"float32", args.weight_dtype} :
         te = [i \in {1, 2} |->
                 [device |-> IF i = 1 THEN d1 ELSE d2, dtype |-> dt]]
    /\ big \in [vae : Devices, unet : Devices]
    /\ pre = [te |-> te, big |-> big]
    /\ org = <<>>
    /\ te_invoked = FALSE
    /\ prime_call = <<>>
    /\ batch = <<>>
    /\ live_call = <<>>
    /\ text_conds = <<>>
    /\ IdleTI
    /\ IdleUnet

Next ==
    \/ AssertExtraArgs
    \/ Relocate
    \/ Encode
    \/ Demote
    \/ Restore
    \/ KeepResident
    \/ GetTextCond(RunBatches)

Spec == Init /\ [][Next]_vars

\* get_text_cond alone, on every batch, from the states priming can leave:
\* the encoders demoted (caching) or resident on the accelerator (no caching)
InitCond ==
    /\ pc = "primed"
    /\ error = "none"
    /\ args \in { a \in ArgsSet :
                    /\ CacheableCheck(a, TRUE)
                    /\ TrainUnetOnlyCheck(a)
                    /\ a.network_train_unet_only
                    /\ ~a.lowram
                    /\ ~a.cache_text_encoder_outputs_to_disk }
    /\ cacheable = TRUE
    /\ accel \in Devices
    /\ \E dt \in {"float32", args.weight_dtype} :
         te = [i \in {1, 2} |->
                 IF args.cache_text_encoder_outputs
                   THEN DemoteEncoder([device |-> accel, dtype |-> dt])
                   ELSE ResidentEncoder([device |-> "cpu", dtype |-> dt], accel)]
    /\ big = [vae |-> accel, unet |-> accel]
    /\ pre = [te |-> te, big |-> big]
    /\ org = <<>>
    /\ te_invoked = args.cache_text_encoder_outputs
    /\ prime_call = <<>>
    /\ batch = <<>>
    /\ live_call = <<>>
    /\ text_conds = <<>>
    /\ IdleTI
    /\ IdleUnet

\* one call per behaviour: what a call does depends on no earlier call
NextCond == pc = "primed" /\ GetTextCond(AllBatches)

SpecCond == InitCond /\ [][NextCond]_vars

-----------------------------------------------------------------------------
(* load_textual_inversion *)

\* bounds of the textual-inversion model
MaxK == 3

MaxFiles == 2

MaxLoads == 2

\* strings are sequences of characters
Digits == <<"0", "1", "2", "3", "4", "5", "6", "7", "8", "9">>

RECURSIVE Str(_)
\* str(n) in an f-string, n >= 0
Str(n) == IF n < 10 THEN <<Digits[n + 1]>> ELSE Str(n \div 10) \o <<Digits[(n % 10) + 1]>>

\* the file names (without directory and extension) and the option
\* textual_inversion_name (<<>>: not given)
BaseNames == { <<"a">>, <<"a", "1">>, <<"b">> }

NameOptions == { <<>>, <<"b">> }

\* row j of the tensor data["clip_l"] (encoder 1) or data["clip_g"] (encoder 2)
Vec(e, base, k, j) == <<IF e = 1 THEN "clip_l" ELSE "clip_g", base, k, j>>

\* an embeddings file: both tensors hold k vectors
File(base, k) ==
    [ base |-> base,
      clip_l |-> [j \in 1..k |-> Vec(1, base, k, j)],
      clip_g |-> [j \in 1..k |-> Vec(2, base, k, j)] ]

FileSet == { File(b, k) : b \in BaseNames, k \in 1..MaxK }

\* line 73: args.textual_inversion_name or the file's base name
TokenString(name, f) == IF name # <<>> THEN name ELSE f.base

\* line 74: [token_string] + [f"{token_string}{i + 1}" for i in range(k - 1)]
TokenStrings(s, k) == [j \in 1..k |-> IF j = 1 THEN s ELSE s \o Str(j - 1)]

InVocab(vocab, s) == \E i \in 1..Len(vocab) : vocab[i] = s

RECURSIVE AddTokens(_, _)
\* tokenizer.add_tokens(strings): each string the vocabulary does not hold yet
\* gets the next id; [vocab: the new vocabulary, added: how many were added]
AddTokens(vocab, strings) ==
    IF strings = <<>> THEN [vocab |-> vocab, added |-> 0]
    ELSE IF InVocab(vocab, Head(strings))
      THEN AddTokens(vocab, Tail(strings))
      ELSE LET r == AddTokens(Append(vocab, Head(strings)), Tail(strings)) IN
             [vocab |-> r.vocab, added |-> r.added + 1]

\* the id of a token string: its position, counted from 0 (0, the unknown
\* token's id, for a string the vocabulary does not hold)
IdOf(vocab, s) ==
    IF InVocab(vocab, s) THEN (CHOOSE i \in 1..Len(vocab) : vocab[i] = s) - 1 ELSE 0

\* tokenizer.convert_tokens_to_ids(strings) as transformers resolves it
ConvertTokensToIds(vocab, strings) ==
    [j \in 1..Len(strings) |-> IdOf(vocab, strings[j])]

\* the id lists a tokenizer may resolve: the real one, or for a tokenizer that
\* keeps no such promise any list of ids (one id past the vocabulary included)
ResolvedIds(impl, vocab, strings) ==
    IF impl = "transformers" THEN { ConvertTokensToIds(vocab, strings) }
    ELSE [1..Len(strings) -> 0..Len(vocab)]

MinOf(ids) == CHOOSE m \in { ids[j] : j \in 1..Len(ids) } :
                 \A j \in 1..Len(ids) : m <= ids[j]

\* line 78 with the count of the first tokenizer alone
AddedCheckFirstOnly(n1, n2, k) == n1 = k

\* line 78: both tokenizers added exactly k tokens
AddedCheck(n1, n2, k) == n1 = k /\ n2 = k

\* lines 86-91: min(ids) == ids[0] and ids[-1] == ids[0] + len(ids) - 1
OrderedCheck(ids) ==
    /\ MinOf(ids) = ids[1]
    /\ ids[Len(ids)] = ids[1] + Len(ids) - 1

\* lines 92-93: len(tokenizer) - 1 == ids[-1]
EndCheck(vocab, ids) == Len(vocab) - 1 = ids[Len(ids)]

\* text_encoder.resize_token_embeddings(n): the rows kept, new rows not set
ResizeTokenEmbeddings(table, n) ==
    [i \in 1..n |-> IF i <= Len(table) THEN table[i] ELSE <<"unset", <<>>, 0, 0>>]

Min2(a, b) == IF a < b THEN a ELSE b

\* lines 105-106 writing the first vector to every id
WritePairsFirstVector(ids, embeds) ==
    [j \in 1..Min2(Len(ids), Len(embeds)) |-> [id |-> ids[j], embed |-> embeds[1]]]

\* lines 105-106: zip(token_ids, embeds), the (token_id, embed) pairs in order
WritePairs(ids, embeds) ==
    [j \in 1..Min2(Len(ids), Len(embeds)) |-> [id |-> ids[j], embed |-> embeds[j]]]

RECURSIVE Concat(_)
Concat(ss) == IF ss = <<>> THEN <<>> ELSE Head(ss) \o Concat(Tail(ss))

\* lines 104-109 for one encoder: every write of every pending entry, in order
AllWrites(pend) ==
    Concat([m \in 1..Len(pend) |-> WritePairs(pend[m].ids, pend[m].embeds)])

RECURSIVE ApplyWrites(_, _)
\* token_embeds[token_id] = embed, one after the other; an id outside the table
\* raises and leaves the writes done so far
ApplyWrites(table, writes) ==
    IF writes = <<>> THEN [table |-> table, ok |-> TRUE]
    ELSE IF Head(writes).id + 1 > Len(table) THEN [table |-> table, ok |-> FALSE]
    ELSE ApplyWrites([table EXCEPT ![Head(writes).id + 1] = Head(writes).embed],
                     Tail(writes))

\* lines 59-61: the call starts; without files it does nothing at all. The
\* files of args.textual_inversion_embeddings are drawn as the loop reaches them.
TIBegin ==
    /\ pc \in {"ti_idle", "ti_done"}
    /\ ti.loads < MaxLoads
    /\ \E name \in NameOptions, some \in BOOLEAN :
         /\ ti' = [ti EXCEPT !.name = name, !.call = <<>>,
                             !.pending = << <<>>, <<>> >>,
                             !.pre_emb = emb, !.pre_tok = tok,
                             !.loads = @ + 1]
         /\ pc' = IF some THEN "ti_loop" ELSE "ti_done"
    /\ UNCHANGED << error, runVars, tok, emb, unet_io >>

\* lines 62-99: one turn of the loop, on the next file f of the list
TIFile ==
    /\ pc = "ti_loop"
    /\ Len(ti.call) < MaxFiles
    /\ \E f \in FileSet :
       LET embeds1 == f.clip_l
           embeds2 == f.clip_g
           k == Len(embeds1)
           strings == TokenStrings(TokenString(ti.name, f), k)
           r1 == AddTokens(tok[1], strings)
           r2 == AddTokens(tok[2], strings)
       IN /\ tok' = << r1.vocab, r2.vocab >>
          /\ IF ~AddedCheck(r1.added, r2.added, k)
               THEN /\ pc' = "failed"
                    /\ error' = "VocabularyConflict"
                    /\ ti' = [ti EXCEPT !.call = Append(@, f)]
               ELSE \E ids1 \in ResolvedIds(ti.impl[1], r1.vocab, strings),
                       ids2 \in ResolvedIds(ti.impl[2], r2.vocab, strings) :
                      IF /\ OrderedCheck(ids1)
                         /\ OrderedCheck(ids2)
                         /\ EndCheck(r1.vocab, ids1)
                         /\ EndCheck(r2.vocab, ids2)
                        THEN /\ pc' = "ti_loop"
                             /\ UNCHANGED error
                             /\ ti' = [ti EXCEPT
                                  !.call = Append(@, f),
                                  !.pending = <<
                                     Append(@[1], [ids |-> ids1, embeds |-> embeds1,
                                                   old |-> Len(tok[1]),
                                                   new |-> Len(r1.vocab)]),
                                     Append(@[2], [ids |-> ids2, embeds |-> embeds2,
                                                   old |-> Len(tok[2]),
                                                   new |-> Len(r2.vocab)]) >>]
                        ELSE /\ pc' = "failed"
                             /\ error' = "VocabularyIntegrityError"
                             /\ ti' = [ti EXCEPT !.call = Append(@, f)]
    /\ UNCHANGED << runVars, emb, unet_io >>

\* lines 100-109: both tables resized, then the pending vectors written
TIApply ==
    /\ pc = "ti_loop"
    /\ ti.call # <<>>
    /\ LET w1 == ApplyWrites(ResizeTokenEmbeddings(emb[1], Len(tok[1])),
                             AllWrites(ti.pending[1]))
           w2 == ApplyWrites(ResizeTokenEmbeddings(emb[2], Len(tok[2])),
                             AllWrites(ti.pending[2]))
       IN IF ~w1.ok
            THEN /\ emb' = << w1.table, ResizeTokenEmbeddings(emb[2], Len(tok[2])) >>
                 /\ pc' = "failed"
                 /\ error' = "IndexError"
                 /\ UNCHANGED ti
            ELSE IF ~w2.ok
            THEN /\ emb' = << w1.table, w2.table >>
                 /\ pc' = "failed"
                 /\ error' = "IndexError"
                 /\ UNCHANGED ti
            ELSE /\ emb' = << w1.table, w2.table >>
                 /\ pc' = "ti_done"
                 /\ UNCHANGED error
                 /\ ti' = [ti EXCEPT !.loaded =
                             @ \cup { [file |-> ti.call[m], name |-> ti.name] :
                                        m \in 1..Len(ti.call) }]
    /\ UNCHANGED << runVars, tok, unet_io >>

\* the vocabularies the two tokenizers start with, and matching tables
BaseVocabs == { << <<"u">> >>, << <<"u">>, <<"a">> >> }

BaseTable(e, vocab) == [i \in 1..Len(vocab) |-> <<"base", <<>>, e, i>>]

IdleRun ==
    /\ args \in { a \in ArgsSet :
                    /\ ~a.cache_text_encoder_outputs
                    /\ ~a.cache_text_encoder_outputs_to_disk
                    /\ a.network_train_unet_only
                    /\ ~a.lowram /\ ~a.full_fp16
                    /\ a.weight_dtype = "float32"
                    /\ a.max_token_length = <<>> }
    /\ cacheable = TRUE
    /\ accel = "cpu"
    /\ te = [i \in {1, 2} |-> [device |-> "cpu", dtype |-> "float32"]]
    /\ big = [vae |-> "cpu", unet |-> "cpu"]
    /\ pre = [te |-> te, big |-> big]
    /\ org = <<>>
    /\ te_invoked = FALSE
    /\ prime_call = <<>>
    /\ batch = <<>>
    /\ live_call = <<>>
    /\ text_conds = <<>>

InitTIWith(impls) ==
    /\ pc = "ti_idle"
    /\ error = "none"
    /\ IdleRun
    /\ tok \in [1..2 -> BaseVocabs]
    /\ emb = [e \in 1..2 |-> BaseTable(e, tok[e])]
    /\ \E impl \in impls :
         ti = [ name |-> <<>>, call |-> <<>>,
                pending |-> << <<>>, <<>> >>,
                pre_emb |-> emb, pre_tok |-> tok,
                loaded |-> {}, loads |-> 0, impl |-> impl ]
    /\ IdleUnet

NextTI ==
    \/ TIBegin
    \/ TIFile
    \/ TIApply

\* both tokenizers are transformers' tokenizers
InitTI == InitTIWith({ <<"transformers", "transformers">> })

SpecTI == InitTI /\ [][NextTI]_vars

\* one of the two tokenizers resolves ids as it likes
InitTok == InitTIWith({ <<"any", "transformers">>, <<"transformers", "any">> })

SpecTok == InitTok /\ [][NextTI]_vars

-----------------------------------------------------------------------------
(* call_unet *)

\* bounds of the call_unet model: feature dimensions and batch sizes
MaxDim == 2

MaxBatch == 2

\* a tensor of call_unet: b samples, each with the features feat
\* (the last axis), in a dtype
FTensor(b, feat, dt) ==
    [b |-> b, feat |-> [j \in 1..Len(feat) |-> Round(feat[j], dt)], dtype |-> dt]

\* tensor.to(dtype) on such a tensor
CastTo(t, dt) == FTensor(t.b, t.feat, dt)

\* the dtype torch.cat gives tensors of two dtypes
Promote(d1, d2) == IF d1 = d2 THEN d1 ELSE "float32"

\* torch.cat([t1, t2]) along the feature axis
Cat(t1, t2) == FTensor(t1.b, t1.feat \o t2.feat, Promote(t1.dtype, t2.dtype))

\* sdxl_train_util.get_size_embeddings(orig, crop, target, device): one
\* embedding per size, side by side, in float32
SizeEmbeddings(g) == FTensor(g.b, <<g.orig, g.crop, g.target>>, "float32")

\* line 207: noisy_latents.to(weight_dtype)
LatentsForUnet(x, wd) == [x EXCEPT !.dtype = wd, !.v = Round(x.v, wd)]

\* line 217: torch.cat([pool2, embs], dim=1).to(weight_dtype)
VectorEmbedding(pool2, embs, wd) == CastTo(Cat(pool2, embs), wd)

\* line 218 with the two parts swapped
TextEmbeddingSwapped(h1, h2, wd) == CastTo(Cat(h2, h1), wd)

\* line 218: torch.cat([encoder_hidden_states1, encoder_hidden_states2], dim=2).to(weight_dtype)
TextEmbedding(h1, h2, wd) == CastTo(Cat(h1, h2), wd)

\* what the denoiser returns for a call: a prediction for just these arguments
UnetOutput(call) == [noise_pred_for |-> call]

\* lines 206-221; torch.cat raises when the batch sizes differ
CallUnet ==
    /\ pc = "unet_ready"
    /\ LET in == unet_io.in
           wd == args.weight_dtype
           noisy_latents == LatentsForUnet(in.noisy_latents, wd)
           embs == CastTo(SizeEmbeddings(in.sizes), wd)
       IN IF in.pool2.b # embs.b \/ in.hidden1.b # in.hidden2.b
            THEN /\ pc' = "failed"
                 /\ error' = "cat_size_mismatch"
                 /\ UNCHANGED unet_io
            ELSE LET call == [latents |-> noisy_latents,
                              timesteps |-> in.timesteps,
                              text_embedding |-> TextEmbedding(in.hidden1, in.hidden2, wd),
                              vector_embedding |-> VectorEmbedding(in.pool2, embs, wd)]
                 IN /\ unet_io' = [unet_io EXCEPT !.calls = Append(@, call),
                                                 !.out = <<UnetOutput(call)>>]
                    /\ pc' = "unet_done"
                    /\ UNCHANGED error
    /\ UNCHANGED << runVars, tok, emb, ti >>

\* features of the three conditioning tensors and of the latents
Feat(base, n) == [j \in 1..n |-> base + j]

InitUnet ==
    /\ pc = "unet_ready"
    /\ error = "none"
    /\ args \in { a \in ArgsSet :
                    /\ ~a.cache_text_encoder_outputs
                    /\ ~a.cache_text_encoder_outputs_to_disk
                    /\ a.network_train_unet_only
                    /\ ~a.lowram /\ ~a.full_fp16
                    /\ a.max_token_length = <<>> }
    /\ cacheable = TRUE
    /\ accel = "cuda"
    /\ te = [i \in {1, 2} |-> [device |-> "cuda", dtype |-> "float32"]]
    /\ big = [vae |-> "cuda", unet |-> "cuda"]
    /\ pre = [te |-> te, big |-> big]
    /\ org = <<>>
    /\ te_invoked = FALSE
    /\ prime_call = <<>>
    /\ batch = <<>>
    /\ live_call = <<>>
    /\ text_conds = <<>>
    /\ IdleTI
    /\ \E d1 \in 1..MaxDim, d2 \in 1..MaxDim, p \in 1..MaxDim,
          b \in 1..MaxBatch, bg \in 1..MaxBatch,
          cdt \in {"float32", args.weight_dtype}, ldt \in DTypes,
          t \in {1, 999}, size \in {512, 1024} :
         unet_io =
           [ in |-> [ noisy_latents |-> [b |-> b, v |-> Round(7, ldt), dtype |-> ldt],
                      timesteps |-> t,
                      hidden1 |-> FTensor(b, Feat(10, d1), cdt),
                      hidden2 |-> FTensor(b, Feat(20, d2), cdt),
                      pool2 |-> FTensor(b, Feat(30, p), cdt),
                      sizes |-> [b |-> bg, orig |-> size, crop |-> 0, target |-> size] ],
             calls |-> <<>>,
             out |-> <<>> ]

NextUnet == CallUnet

SpecUnet == InitUnet /\ [][NextUnet]_vars

-----------------------------------------------------------------------------
(* Properties of the run *)

\* cache_text_encoder_outputs_if_needed has returned
PrimingDone ==
    \/ pc \in {"primed", "cond"}
    \/ pc = "failed" /\ error \in {"device_mismatch", "cached_entry_unreadable"}

Caching == args.cache_text_encoder_outputs

\* C1: with caching asked for on a dataset that is not cacheable, the run never
\* gets past assert_extra_args: it ends there with a configuration error, and no
\* text encoder has been invoked, neither by the priming pass nor by
\* get_text_cond.
C1_NotCacheableFailsBeforeEncoding ==
    (Caching /\ ~cacheable) =>
        /\ pc \in {"start", "failed"}
        /\ pc = "failed" =>
             error \in {"super_assert_extra_args", "verify_sdxl_training_args",
                        "not_cacheable"}
        /\ ~te_invoked
        /\ prime_call = <<>>
        /\ live_call = <<>>

C1_Witness ==
    /\ Caching /\ ~cacheable
    /\ pc = "failed"
    /\ error = "not_cacheable"
    /\ ~te_invoked

\* C2 as stated: after priming with caching on, both text encoders are in
\* float32 and where each was before priming.
C2_EncodersBackWhereTheyWere ==
    (PrimingDone /\ Caching) =>
        \A i \in {1, 2} :
            /\ te[i].dtype = "float32"
            /\ te[i].device = pre.te[i].device

\* C2 amended: after priming with caching on, both text encoders are in float32
\* and on the cpu, whatever the weight dtype, wherever they were before priming
\* and whether or not vae and unet were relocated.
C2_EncodersOnCpuFloat32 ==
    (PrimingDone /\ Caching) =>
        \A i \in {1, 2} : te[i] = [device |-> "cpu", dtype |-> "float32"]

C2_Witness ==
    /\ pc = "primed"
    /\ Caching
    /\ args.weight_dtype = "float16"
    /\ pre.te[1] = [device |-> "cuda", dtype |-> "float16"]
    /\ te[1] = [device |-> "cpu", dtype |-> "float32"]

OnCpu(b) == b.vae = "cpu" /\ b.unet = "cpu"

\* C6: with caching on, the steps run in the order relocate, encode, demote,
\* restore. Without lowram, vae and unet are on the cpu from the relocation
\* until the encoders are demoted, so for the whole dataset encoding pass, and
\* once priming has returned each is back where it was before; with lowram
\* priming never moves them.
C6_RelocateEncodeDemoteRestore ==
    Caching =>
        /\ pc \in {"start", "asserted", "relocated"} => prime_call = <<>>
        /\ pc \in {"encoded", "demoted"} \/ PrimingDone => prime_call # <<>>
        /\ pc = "demoted" \/ PrimingDone =>
             \A i \in {1, 2} : te[i] = [device |-> "cpu", dtype |-> "float32"]
        /\ ~args.lowram =>
             /\ pc \in {"relocated", "encoded", "demoted"} => OnCpu(big)
             /\ prime_call # <<>> => OnCpu(prime_call[1])
             /\ PrimingDone => big = pre.big
        /\ args.lowram =>
             /\ big = pre.big
             /\ prime_call # <<>> =>
                  /\ prime_call[1].vae = pre.big.vae
                  /\ prime_call[1].unet = pre.big.unet

C6_Witness ==
    /\ Caching /\ ~args.lowram
    /\ pc = "primed"
    /\ prime_call # <<>> /\ OnCpu(prime_call[1])
    /\ pre.big = [vae |-> "cuda", unet |-> "cuda"]
    /\ big = pre.big

\* C7: with caching asked for while the text encoders' network is trained
\* (network_train_unet_only false), the run never gets past assert_extra_args,
\* whatever the dataset says about cacheability: caching is never under way
\* together with text-encoder training.
C7_NoCachingWithTextEncoderTraining ==
    (Caching /\ ~args.network_train_unet_only) =>
        /\ pc \in {"start", "failed"}
        /\ pc = "failed" =>
             error \in {"super_assert_extra_args", "verify_sdxl_training_args",
                        "not_cacheable", "te_train_with_cache"}
        /\ (pc = "failed" /\ error = "not_cacheable") => ~cacheable

C7_Witness ==
    /\ Caching /\ ~args.network_train_unet_only /\ cacheable
    /\ pc = "failed"
    /\ error = "te_train_with_cache"

\* C10: whenever get_text_cond invokes the text encoders, both encoders are on
\* the device the input ids were just moved to.
C10_LiveEncodersWithTheirInputs ==
    live_call # <<>> =>
        /\ live_call[1].te1.device = live_call[1].input_ids1.device
        /\ live_call[1].te2.device = live_call[1].input_ids2.device

-----------------------------------------------------------------------------
(* Properties of get_text_cond *)

LastBatch == batch[1]

\* C8: get_text_cond takes its path from the batch alone. With the first
\* precomputed entry missing or None it moves both input-id tensors to the
\* accelerator and calls the text encoders with args.max_token_length; with
\* the entries there it returns the three of them moved to the accelerator and
\* cast to weight_dtype, calling no text encoder. A batch whose precomputed
\* entries are all there or all absent never takes a mixed path.
C8_PathFromBatchAlone ==
    (batch # <<>>) =>
        /\ IsAbsent(LastBatch.text_encoder_outputs1_list) =>
             /\ live_call # <<>>
             /\ live_call[1].max_token_length = args.max_token_length
             /\ live_call[1].input_ids1 =
                  [LastBatch.input_ids EXCEPT !.device = accel]
             /\ live_call[1].input_ids2 =
                  [LastBatch.input_ids2 EXCEPT !.device = accel]
             /\ pc = "cond" => text_conds = LiveOutputs(live_call[1])
        /\ (~IsAbsent(LastBatch.text_encoder_outputs1_list)
              /\ BatchInvariant(LastBatch)) =>
             /\ pc = "cond"
             /\ live_call = <<>>
             /\ Len(text_conds) = 3
             /\ \A i \in 1..3 :
                  LET src == CASE i = 1 -> LastBatch.text_encoder_outputs1_list
                               [] i = 2 -> LastBatch.text_encoder_outputs2_list
                               [] i = 3 -> LastBatch.text_encoder_pool2_list
                  IN /\ text_conds[i].st = "tensor"
                     /\ text_conds[i].device = accel
                     /\ text_conds[i].dtype = args.weight_dtype
                     /\ text_conds[i].v = Round(src.v, args.weight_dtype)

C8_Witness ==
    /\ batch # <<>>
    /\ pc = "cond"
    /\ accel = "cuda"
    /\ args.weight_dtype = "float16"
    /\ LastBatch.text_encoder_outputs1_list = Tensor(5, "cpu", "float32")
    /\ BatchInvariant(LastBatch)
    /\ live_call = <<>>
    /\ text_conds[1] = Tensor(4, "cuda", "float16")

-----------------------------------------------------------------------------
(* Properties of load_textual_inversion *)

\* C3: a file is accepted only if the ids each tokenizer resolves for its k
\* token strings are, in order, old size, old size + 1, ..., new size - 1.
C3_OnlyContiguousIdsAccepted ==
    \A e \in 1..2 :
      \A m \in 1..Len(ti.pending[e]) :
        LET p == ti.pending[e][m] IN
          p.ids = [j \in 1..Len(p.ids) |-> p.old + j - 1]

\* the file the loop took last, and whether one of its token strings was in a
\* tokenizer already
LastFile(t) == t.call[Len(t.call)]

Conflicts(t, vocabs) ==
    LET strings == TokenStrings(TokenString(t.name, LastFile(t)),
                                Len(LastFile(t).clip_l))
    IN \E e \in 1..2 : \E j \in 1..Len(strings) : InVocab(vocabs[e], strings[j])

\* C4: registering a label on a tokenizer that already holds one of the derived
\* token strings fails with the vocabulary conflict and writes no embedding row;
\* so a file loaded a second time, or a second file of the call with the same
\* label, fails instead of being applied twice: when the call has failed that
\* way, the tables are what they were when the call began.
C4_ExistingTokenIsAConflict ==
    /\ [][ (Len(ti'.call) = Len(ti.call) + 1 /\ Conflicts(ti', tok)) =>
             (pc' = "failed" /\ error' = "VocabularyConflict" /\ emb' = emb) ]_vars
    /\ []((pc = "failed" /\ error = "VocabularyConflict") => emb = ti.pre_emb)

C4_Witness ==
    /\ pc = "failed"
    /\ error = "VocabularyConflict"
    /\ ti.loads = 2
    /\ [file |-> LastFile(ti), name |-> ti.name] \in ti.loaded
    /\ emb = ti.pre_emb
    /\ \E j \in 1..Len(emb[1]) : emb[1][j][1] = "clip_l"

\* C5: after a successful load each table has as many rows as its tokenizer has
\* tokens, the row of the j-th token string of every file of the call holds the
\* j-th vector of clip_l (encoder 1) or clip_g (encoder 2), and every row that
\* was there before the call is unchanged.
C5_NewRowsWrittenOldRowsKept ==
    (pc = "ti_done") =>
      \A e \in 1..2 :
        /\ Len(emb[e]) = Len(tok[e])
        /\ \A m \in 1..Len(ti.call) :
             LET f == ti.call[m]
                 vecs == IF e = 1 THEN f.clip_l ELSE f.clip_g
                 strings == TokenStrings(TokenString(ti.name, f), Len(f.clip_l))
             IN \A j \in 1..Len(strings) :
                  /\ InVocab(tok[e], strings[j])
                  /\ ~InVocab(ti.pre_tok[e], strings[j])
                  /\ IdOf(tok[e], strings[j]) >= Len(ti.pre_tok[e])
                  /\ emb[e][IdOf(tok[e], strings[j]) + 1] = vecs[j]
        /\ \A i \in 1..Len(ti.pre_emb[e]) : emb[e][i] = ti.pre_emb[e][i]

C5_Witness ==
    /\ pc = "ti_done"
    /\ ti.loads = 2
    /\ Len(ti.call) = 2
    /\ Len(ti.call[1].clip_l) = 3
    /\ Len(ti.pre_emb[2]) > 2
    /\ emb[2][Len(emb[2])] = ti.call[2].clip_g[Len(ti.call[2].clip_g)]

-----------------------------------------------------------------------------
(* Properties of call_unet *)

UnetIn == unet_io.in

\* the denoiser got one call, with the two embeddings laid out as the denoiser
\* expects them, and call_unet returned what the denoiser returned
OneCallWithEmbeddings ==
    /\ Len(unet_io.calls) = 1
    /\ LET call == unet_io.calls[1]
           wd == args.weight_dtype
       IN /\ call.text_embedding.feat =
               [j \in 1..(Len(UnetIn.hidden1.feat) + Len(UnetIn.hidden2.feat)) |->
                  IF j <= Len(UnetIn.hidden1.feat)
                    THEN Round(UnetIn.hidden1.feat[j], wd)
                    ELSE Round(UnetIn.hidden2.feat[j - Len(UnetIn.hidden1.feat)], wd)]
          /\ Len(call.text_embedding.feat) =
               Len(UnetIn.hidden1.feat) + Len(UnetIn.hidden2.feat)
          /\ call.vector_embedding.feat =
               [j \in 1..(Len(UnetIn.pool2.feat)
                            + Len(SizeEmbeddings(UnetIn.sizes).feat)) |->
                  IF j <= Len(UnetIn.pool2.feat)
                    THEN Round(UnetIn.pool2.feat[j], wd)
                    ELSE Round(<<UnetIn.sizes.orig, UnetIn.sizes.crop,
                                 UnetIn.sizes.target>>[j - Len(UnetIn.pool2.feat)], wd)]
          /\ call.text_embedding.dtype = wd
          /\ call.vector_embedding.dtype = wd
          /\ call.timesteps = UnetIn.timesteps
          /\ unet_io.out = <<[noise_pred_for |-> call]>>

\* C9 as stated: one denoiser call, with the embeddings as above and the latents
\* and the timesteps passed as call_unet got them.
C9_LatentsPassedUnaltered ==
    (pc = "unet_done") =>
        /\ OneCallWithEmbeddings
        /\ unet_io.calls[1].latents = UnetIn.noisy_latents

\* C9 amended: one denoiser call; the text embedding is hidden state 1 followed
\* by hidden state 2 along the feature axis, the vector embedding the pooled
\* vector followed by the size embedding, both in weight_dtype; the timesteps
\* are passed as they came and the latents cast to weight_dtype (as they came
\* only if they were in weight_dtype already); the denoiser's output is returned
\* as it is.
C9_LatentsPassedInWeightDType ==
    (pc = "unet_done") =>
        /\ OneCallWithEmbeddings
        /\ unet_io.calls[1].latents.b = UnetIn.noisy_latents.b
        /\ unet_io.calls[1].latents.dtype = args.weight_dtype
        /\ unet_io.calls[1].latents.v = Round(UnetIn.noisy_latents.v, args.weight_dtype)
        /\ UnetIn.noisy_latents.dtype = args.weight_dtype =>
             unet_io.calls[1].latents = UnetIn.noisy_latents

C9_Witness ==
    /\ pc = "unet_done"
    /\ args.weight_dtype = "float16"
    /\ UnetIn.noisy_latents.dtype = "float32"
    /\ unet_io.calls[1].latents.dtype = "float16"
    /\ Len(unet_io.calls[1].text_embedding.feat) = 4
    /\ Len(unet_io.calls[1].vector_embedding.feat) = 5

====
